---------------------------- MODULE Spec2Model ----------------------------
(***************************************************************************)
(* A model of FlacTag (src/src/tag.rs): the ordered block sequence of a    *)
(* FLAC metadata tag, the operations that change it, and its serializer.   *)
(*                                                                         *)
(* A block is a record whose "type" field names the variant of the Block   *)
(* enum.  A u32 is kept as a pair <<hi, lo>> of 16-bit halves so that the  *)
(* 32-bit arithmetic of the code is exact.  A String value is a sequence   *)
(* of one-character strings, so that joining values is concatenation.      *)
(***************************************************************************)
EXTENDS Integers, Sequences, FiniteSets, TLC

VARIABLES
    blocks,           \* FlacTag.blocks: Vec<Block>
    fault,            \* "none", or the panic that ended the program
    overflow_checks,  \* whether the build panics on arithmetic overflow
    op,               \* the operation that ran last, with its arguments
    pre,              \* FlacTag.blocks as it was when that operation began
    ret,              \* what that operation returned
    out,              \* what the writer of the last write_to received
    wres,             \* the result of the last write_to
    npadding,         \* how many Padding blocks add_block was handed so far
    path,             \* FlacTag.path: Option<Path>
    file              \* the file system: the bytes of the file at each path

vars == <<blocks, fault, overflow_checks, op, pre, ret, out, wres, npadding, path, file>>

(***************************************************************************)
(* Bounds of the model.                                                    *)
(***************************************************************************)
MaxBlocks == 3
MaxPadding == 3
MaxCommentBlocks == 2
MaxTagBlocks == 2
MaxFrames == 3
MaxScanBlocks == 2
MaxFileLen == 15

(***************************************************************************)
(* Sequences.                                                              *)
(***************************************************************************)
RECURSIVE Ascending(_)
Ascending(S) ==
    IF S = {} THEN <<>>
    ELSE LET m == CHOOSE x \in S : \A y \in S : x <= y
         IN  <<m>> \o Ascending(S \ {m})

(***************************************************************************)
(* u32 values as <<hi, lo>>, hi and lo in 0..65535.                        *)
(***************************************************************************)
U32(hi, lo) == <<hi, lo>>

\* a + b on u32: the wrapped value, and whether the true sum left the type.
AddU32(a, b) ==
    LET lo == a[2] + b[2]
        hi == a[1] + b[1] + (lo \div 65536)
    IN  [value |-> <<hi % 65536, lo % 65536>>, overflow |-> hi >= 65536]

(***************************************************************************)
(* Blocks.                                                                 *)
(***************************************************************************)
StreamInfoBlock(d) == [type |-> "StreamInfo", data |-> d]
PaddingBlock(size) == [type |-> "Padding", size |-> size]
SeekTableBlock(d) == [type |-> "SeekTable", data |-> d]
VorbisCommentBlock(v) == [type |-> "VorbisComment", vorbis |-> v]
PictureBlock(p) == [type |-> "Picture", picture |-> p]
UnknownBlock(code, d) == [type |-> "Unknown", code |-> code, data |-> d]

IsPadding(b) == b.type = "Padding"
IsStreamInfo(b) == b.type = "StreamInfo"
IsVorbisComment(b) == b.type = "VorbisComment"
IsPicture(b) == b.type = "Picture"

\* BlockType as u8.
BlockTypeCode(t) ==
    CASE t = "StreamInfo" -> 0
      [] t = "Padding" -> 1
      [] t = "Application" -> 2
      [] t = "SeekTable" -> 3
      [] t = "VorbisComment" -> 4
      [] t = "CueSheet" -> 5
      [] t = "Picture" -> 6

\* Block::block_type
block_type(b) == IF b.type = "Unknown" THEN b.code ELSE BlockTypeCode(b.type)

\* VorbisComment::new
NewVorbisComment == [vendor_string |-> <<>>, comments |-> <<>>]

(***************************************************************************)
(* FlacTag::add_block, FlacTag::remove_blocks_with_type.                   *)
(***************************************************************************)
\* a variant that puts the block first
add_block_in_front(blks, b) == <<b>> \o blks

add_block(blks, b) == Append(blks, b)

remove_blocks_with_type(blks, code) ==
    LET Keep(b) == block_type(b) # code IN SelectSeq(blks, Keep)

(***************************************************************************)
(* FlacTag::aggregate_padding.  The loop adds the size of each Padding     *)
(* block to a u32 total; a build with overflow checks panics at the first  *)
(* addition that overflows, before any block is removed, and a build       *)
(* without them wraps.                                                     *)
(***************************************************************************)
RECURSIVE total_padding(_, _, _)
total_padding(blks, i, acc) ==
    IF i > Len(blks) THEN acc
    ELSE IF IsPadding(blks[i])
         THEN LET s == AddU32(acc.value, blks[i].size)
              IN  total_padding(blks, i + 1,
                      [value |-> s.value, overflow |-> acc.overflow \/ s.overflow])
         ELSE total_padding(blks, i + 1, acc)

\* a variant that appends the total and leaves the old Padding blocks in place
aggregate_padding_keeping(blks, checked) ==
    LET total == total_padding(blks, 1, [value |-> U32(0, 0), overflow |-> FALSE])
    IN  IF checked /\ total.overflow
        THEN [blocks |-> blks, fault |-> "overflow"]
        ELSE [blocks |-> add_block(blks, PaddingBlock(total.value)), fault |-> "none"]

aggregate_padding(blks, checked) ==
    LET total == total_padding(blks, 1, [value |-> U32(0, 0), overflow |-> FALSE])
    IN  IF checked /\ total.overflow
        THEN [blocks |-> blks, fault |-> "overflow"]
        ELSE [blocks |-> add_block(remove_blocks_with_type(blks, BlockTypeCode("Padding")),
                                   PaddingBlock(total.value)),
              fault |-> "none"]

(***************************************************************************)
(* The sort of write_to: sort_value and the stable sort_by.                *)
(***************************************************************************)
\* a variant that gives StreamInfo no priority of its own
sort_value_no_streaminfo(b) == IF IsPadding(b) THEN 3 ELSE 2

sort_value(b) ==
    IF IsStreamInfo(b) THEN 1
    ELSE IF IsPadding(b) THEN 3
    ELSE 2

\* b goes after every element that does not compare greater than it.
RECURSIVE insert_sorted(_, _)
insert_sorted(s, b) ==
    IF s = <<>> THEN <<b>>
    ELSE IF sort_value(s[Len(s)]) <= sort_value(b)
         THEN Append(s, b)
         ELSE Append(insert_sorted(SubSeq(s, 1, Len(s) - 1), b), s[Len(s)])

RECURSIVE sort_by(_)
sort_by(blks) ==
    IF blks = <<>> THEN <<>>
    ELSE insert_sorted(sort_by(SubSeq(blks, 1, Len(blks) - 1)), blks[Len(blks)])

(***************************************************************************)
(* The block codec (Block::write_to, Block::read_from).  A stream is the   *)
(* 4-byte ident followed by frames; a frame is the header byte (the        *)
(* last-block flag in bit 7, the type code below it) and the payload.      *)
(* A payload longer than 0xFFFFFF bytes cannot be encoded.                 *)
(***************************************************************************)
EmptyStream == [ident |-> "", frames |-> <<>>]

Payload(b) ==
    CASE b.type = "Padding" -> [zeros |-> b.size]
      [] b.type = "VorbisComment" -> [vorbis |-> b.vorbis]
      [] b.type = "Picture" -> [picture |-> b.picture]
      [] OTHER -> [bytes |-> b.data]

\* whether the length of the payload fits the 24-bit length field
Encodable(b) == IsPadding(b) => b.size[1] <= 255

Frame(is_last, b) ==
    [header |-> (IF is_last THEN 128 ELSE 0) + block_type(b), payload |-> Payload(b)]

FrameIsLast(f) == f.header \div 128 = 1

DecodeBlock(f) ==
    LET code == f.header % 128
    IN  CASE code = 0 -> StreamInfoBlock(f.payload.bytes)
          [] code = 1 -> PaddingBlock(f.payload.zeros)
          [] code = 3 -> SeekTableBlock(f.payload.bytes)
          [] code = 4 -> VorbisCommentBlock(f.payload.vorbis)
          [] code = 6 -> PictureBlock(f.payload.picture)
          [] OTHER -> UnknownBlock(code, f.payload.bytes)

(***************************************************************************)
(* FlacTag::write_to.  The writer takes `cap` writes and fails the next;   *)
(* the ident is one write and each block is one.                           *)
(***************************************************************************)
\* a variant that compares the index with the length
is_last_block_off_by_one(i, nblocks) == i = nblocks

is_last_block(i, nblocks) == i = nblocks - 1

RECURSIVE write_blocks(_, _, _, _)
write_blocks(blks, i, cap, frames) ==
    IF i >= Len(blks) THEN [frames |-> frames, res |-> "ok", err |-> "none"]
    ELSE IF ~Encodable(blks[i + 1])
    THEN [frames |-> frames, res |-> "err", err |-> "FormatError"]
    ELSE IF cap = 0 THEN [frames |-> frames, res |-> "err", err |-> "IoError"]
    ELSE write_blocks(blks, i + 1, cap - 1,
             Append(frames, Frame(is_last_block(i, Len(blks)), blks[i + 1])))

normalize(blks) == sort_by(blks)

write_to(blks, checked, cap) ==
    LET agg == aggregate_padding(blks, checked)
        sorted == normalize(agg.blocks)
        w == write_blocks(sorted, 0, cap - 1, <<>>)
    IN  IF agg.fault # "none"
        THEN [blocks |-> blks, fault |-> agg.fault, out |-> EmptyStream, res |-> "panic",
              err |-> "none"]
        ELSE IF cap = 0
        THEN [blocks |-> sorted, fault |-> "none", out |-> EmptyStream, res |-> "err",
              err |-> "IoError"]
        ELSE [blocks |-> sorted, fault |-> "none",
              out |-> [ident |-> "fLaC", frames |-> w.frames], res |-> w.res, err |-> w.err]

(***************************************************************************)
(* FlacTag::read_from.                                                     *)
(***************************************************************************)
\* The idents in use that are shorter than the 4 bytes read_exact(4) asks for.
ShortIdents == {"", "fL"}

RECURSIVE read_blocks(_, _, _)
read_blocks(frames, i, acc) ==
    IF i > Len(frames) THEN [ok |-> FALSE, blocks |-> <<>>, err |-> "Block::read_from"]
    ELSE LET acc2 == Append(acc, DecodeBlock(frames[i]))
         IN  IF FrameIsLast(frames[i]) THEN [ok |-> TRUE, blocks |-> acc2, err |-> "none"]
             ELSE read_blocks(frames, i + 1, acc2)

read_from(stream) ==
    IF stream.ident \in ShortIdents THEN [ok |-> FALSE, blocks |-> <<>>, err |-> "IoError"]
    ELSE IF stream.ident # "fLaC"
    THEN [ok |-> FALSE, blocks |-> <<>>, err |-> "InvalidInputError"]
    ELSE read_blocks(stream.frames, 1, <<>>)

(***************************************************************************)
(* FlacTag::skip_metadata, on the bytes of a seekable reader.  The I/O     *)
(* calls of one run are numbered from 1 and call number fail_at, when      *)
(* there is one, fails in the transport; a read past the end of the bytes  *)
(* fails by itself, a seek past the end does not, and read_to_end at or    *)
(* past the end gives no bytes.  The result holds the bytes returned,      *)
(* whether a call of the scan failed, and the position it failed at.       *)
(***************************************************************************)
Magic == <<102, 76, 97, 67>>

\* the bytes from position pos on (positions count from 0)
Rest(bytes, pos) == IF pos >= Len(bytes) THEN <<>> ELSE SubSeq(bytes, pos + 1, Len(bytes))

\* the Err arm of try_io!: seek(0, SeekSet) is call `call`, read_to_end the next
try_io(bytes, pos, call, fail_at) ==
    [data |-> IF fail_at \in {call, call + 1} THEN <<>> ELSE bytes,
     failed |-> TRUE, at |-> pos]

\* a variant that stops at the first header whose flag bit is clear
more_inverted(header) == (header[1] \div 128) % 2 = 1

\* ((header >> 24) & 0x80) == 0, on the 4 bytes of the header
more(header) == (header[1] \div 128) % 2 = 0

\* header & 0xFF_FF_FF
length(header) == header[2] * 65536 + header[3] * 256 + header[4]

RECURSIVE skip_blocks(_, _, _, _)
skip_blocks(bytes, pos, call, fail_at) ==
    IF fail_at = call \/ pos + 4 > Len(bytes) THEN try_io(bytes, pos, call + 1, fail_at)
    ELSE LET header == SubSeq(bytes, pos + 1, pos + 4)
             next == pos + 4 + length(header)
         IN  IF fail_at = call + 1 THEN try_io(bytes, pos + 4, call + 2, fail_at)
             ELSE IF more(header) THEN skip_blocks(bytes, next, call + 2, fail_at)
             ELSE IF fail_at = call + 2 THEN try_io(bytes, next, call + 3, fail_at)
             ELSE [data |-> Rest(bytes, next), failed |-> FALSE, at |-> next]

skip_metadata(bytes, fail_at) ==
    IF fail_at = 1 \/ Len(bytes) < 4 THEN try_io(bytes, 0, 2, fail_at)
    ELSE IF SubSeq(bytes, 1, 4) = Magic THEN skip_blocks(bytes, 4, 2, fail_at)
    ELSE IF fail_at = 2 THEN try_io(bytes, 4, 3, fail_at)
    ELSE IF fail_at = 3 THEN try_io(bytes, 0, 4, fail_at)
    ELSE [data |-> bytes, failed |-> FALSE, at |-> 0]

(***************************************************************************)
(* Strings and Option.                                                     *)
(***************************************************************************)
None == <<>>
Some(x) == <<x>>

(***************************************************************************)
(* FlacTag::read_from on the bytes of a file, for raw blocks and Padding   *)
(* blocks, and FlacTag::read_from_path.                                    *)
(***************************************************************************)
RECURSIVE read_blocks_of(_, _, _)
read_blocks_of(bytes, pos, acc) ==
    IF pos + 4 > Len(bytes) THEN [ok |-> FALSE, blocks |-> <<>>]
    ELSE LET header == SubSeq(bytes, pos + 1, pos + 4)
             n == length(header)
             payload == SubSeq(bytes, pos + 5, pos + 4 + n)
             frame == [header |-> header[1],
                       payload |-> IF header[1] % 128 = 1
                                   THEN [zeros |-> U32(n \div 65536, n % 65536)]
                                   ELSE [bytes |-> payload]]
         IN  IF pos + 4 + n > Len(bytes) THEN [ok |-> FALSE, blocks |-> <<>>]
             ELSE IF FrameIsLast(frame)
             THEN [ok |-> TRUE, blocks |-> Append(acc, DecodeBlock(frame))]
             ELSE read_blocks_of(bytes, pos + 4 + n, Append(acc, DecodeBlock(frame)))

read_from_file(bytes) ==
    IF Len(bytes) < 4 \/ SubSeq(bytes, 1, 4) # Magic THEN [ok |-> FALSE, blocks |-> <<>>]
    ELSE read_blocks_of(bytes, 4, <<>>)

read_from_path(files, p, io) ==
    IF p \notin DOMAIN files \/ io.kind = "open" THEN [ok |-> FALSE, blocks |-> <<>>]
    ELSE read_from_file(files[p])

(***************************************************************************)
(* FlacTag::write_to_path and FlacTag::save, on the files of a file        *)
(* system.  One call of a run may fail, as `io` tells: File::open, call    *)
(* number io.n of skip_metadata, File::open_mode, write number io.n + 1 of *)
(* write_to, or write_all of the data after io.n of its bytes.             *)
(***************************************************************************)
\* header byte, 3-byte big-endian length, payload
BlockBytes(b) ==
    LET n == Len(b.payload)
    IN  <<(IF b.last THEN 128 ELSE 0) + b.code, n \div 65536, (n \div 256) % 256, n % 256>>
        \o b.payload

RECURSIVE BlocksBytes(_)
BlocksBytes(list) == IF list = <<>> THEN <<>> ELSE BlockBytes(Head(list)) \o BlocksBytes(Tail(list))

NoFault == [kind |-> "none", n |-> 0]

Zeros(n) == [i \in 1..n |-> 0]

\* the bytes of the payload of a raw block or of a Padding block
PayloadBytes(payload) ==
    IF "zeros" \in DOMAIN payload
    THEN Zeros(payload.zeros[1] * 65536 + payload.zeros[2])
    ELSE payload.bytes

FrameBytes(f) ==
    BlockBytes([last |-> FrameIsLast(f), code |-> f.header % 128,
                payload |-> PayloadBytes(f.payload)])

RECURSIVE FramesBytes(_)
FramesBytes(frames) ==
    IF frames = <<>> THEN <<>> ELSE FrameBytes(Head(frames)) \o FramesBytes(Tail(frames))

\* what a file holds after the writes of write_to
OutBytes(stream) == (IF stream.ident = "fLaC" THEN Magic ELSE <<>>) \o FramesBytes(stream.frames)

\* a variant that fails and leaves the file as it was
write_to_path_atomic(blks, files, p, checked, io) ==
    LET w == write_to(blks, checked, Len(blks) + 2)
    IN  [blocks |-> w.blocks, fault |-> w.fault, file |-> files, truncated |-> TRUE,
         res |-> IF w.fault # "none" THEN "panic" ELSE "err"]

write_to_path(blks, files, p, checked, io) ==
    LET opened == p \in DOMAIN files /\ io.kind # "open"
        data_opt == IF opened
                    THEN Some(skip_metadata(files[p], IF io.kind = "scan" THEN io.n ELSE 0).data)
                    ELSE None
        w == write_to(blks, checked, IF io.kind = "write" THEN io.n ELSE Len(blks) + 2)
        written == OutBytes(w.out)
        Put(bytes) == [q \in DOMAIN files \cup {p} |-> IF q = p THEN bytes ELSE files[q]]
    IN  IF io.kind = "open_mode"
        THEN [blocks |-> blks, fault |-> "none", file |-> files, truncated |-> FALSE,
              res |-> "err"]
        ELSE IF w.fault # "none"
        THEN [blocks |-> w.blocks, fault |-> w.fault, file |-> Put(<<>>), truncated |-> TRUE,
              res |-> "panic"]
        ELSE IF w.res = "err"
        THEN [blocks |-> w.blocks, fault |-> "none", file |-> Put(written), truncated |-> TRUE,
              res |-> "err"]
        ELSE IF data_opt # None /\ io.kind = "write_all" /\ io.n < Len(data_opt[1])
        THEN [blocks |-> w.blocks, fault |-> "none",
              file |-> Put(written \o SubSeq(data_opt[1], 1, io.n)), truncated |-> TRUE,
              res |-> "err"]
        ELSE [blocks |-> w.blocks, fault |-> "none",
              file |-> Put(written \o (IF data_opt = None THEN <<>> ELSE data_opt[1])),
              truncated |-> TRUE, res |-> "ok"]

\* a variant that does nothing when no path is recorded
save_or_nothing(blks, files, pth, checked, io) ==
    IF pth = None
    THEN [blocks |-> blks, fault |-> "none", file |-> files, truncated |-> FALSE, res |-> "ok"]
    ELSE write_to_path(blks, files, pth[1], checked, io)

save(blks, files, pth, checked, io) ==
    IF pth = None
    THEN [blocks |-> blks, fault |-> "panic", file |-> files, truncated |-> FALSE,
          res |-> "panic"]
    ELSE write_to_path(blks, files, pth[1], checked, io)

\* [String].connect(sep)
RECURSIVE connect(_, _)
connect(list, sep) ==
    IF list = <<>> THEN <<>>
    ELSE IF Len(list) = 1 THEN list[1]
    ELSE list[1] \o sep \o connect(Tail(list), sep)

CommaSpace == <<",", " ">>

(***************************************************************************)
(* VorbisComment.comments, a map from keys to lists of values.             *)
(***************************************************************************)
ContainsKey(c, key) == key \in DOMAIN c

\* a variant that drops the other keys of the map
MapInsertAlone(c, key, list) == [k \in {key} |-> list]

MapInsert(c, key, list) == [k \in DOMAIN c \cup {key} |-> IF k = key THEN list ELSE c[k]]

MapRemove(c, key) == [k \in DOMAIN c \ {key} |-> c[k]]

WithComments(b, c) ==
    VorbisCommentBlock([vendor_string |-> b.vorbis.vendor_string, comments |-> c])

(***************************************************************************)
(* FlacTag::vorbis_comments and FlacTag::vorbis_comments_mut.  The mutable *)
(* references are kept as the indices of the blocks they point into.       *)
(***************************************************************************)
RECURSIVE vorbis_comments(_)
vorbis_comments(blks) ==
    IF blks = <<>> THEN <<>>
    ELSE IF IsVorbisComment(Head(blks))
         THEN <<Head(blks).vorbis>> \o vorbis_comments(Tail(blks))
         ELSE vorbis_comments(Tail(blks))

RECURSIVE vorbis_indices(_, _)
vorbis_indices(blks, i) ==
    IF i > Len(blks) THEN <<>>
    ELSE IF IsVorbisComment(blks[i])
         THEN <<i>> \o vorbis_indices(blks, i + 1)
         ELSE vorbis_indices(blks, i + 1)

\* a variant that pushes a new block whether or not one was found
vorbis_comments_mut_always_push(blks) ==
    LET pushed == Append(blks, VorbisCommentBlock(NewVorbisComment))
    IN  [blocks |-> pushed, all |-> Append(vorbis_indices(blks, 1), Len(pushed))]

vorbis_comments_mut(blks) ==
    LET found == vorbis_indices(blks, 1)
        pushed == IF Len(found) = 0
                  THEN Append(blks, VorbisCommentBlock(NewVorbisComment))
                  ELSE blks
        indices == IF Len(found) = 0 THEN <<Len(pushed)>> ELSE found
        Valid(i) == i <= Len(pushed) /\ IsVorbisComment(pushed[i])
    IN  [blocks |-> pushed, all |-> SelectSeq(indices, Valid)]

(***************************************************************************)
(* FlacTag::get_vorbis_key.                                                *)
(***************************************************************************)
RECURSIVE push_all_values(_, _, _)
push_all_values(vorbis, key, all) ==
    IF vorbis = <<>> THEN all
    ELSE push_all_values(Tail(vorbis), key,
             IF ContainsKey(Head(vorbis).comments, key)
             THEN all \o Head(vorbis).comments[key]
             ELSE all)

\* a variant that reads the first comment block only
get_vorbis_key_first_block(blks, key) ==
    LET vs == vorbis_comments(blks)
        all == IF vs # <<>> /\ ContainsKey(vs[1].comments, key)
               THEN vs[1].comments[key] ELSE <<>>
    IN  IF Len(all) > 0 THEN Some(connect(all, CommaSpace)) ELSE None

get_vorbis_key(blks, key) ==
    LET all == push_all_values(vorbis_comments(blks), key, <<>>)
    IN  IF Len(all) > 0 THEN Some(connect(all, CommaSpace)) ELSE None

(***************************************************************************)
(* FlacTag::set_vorbis_key, remove_vorbis_key, remove_vorbis_key_value.    *)
(***************************************************************************)
\* a variant that extends the list the key already has
set_vorbis_key_extending(blks, key, values) ==
    LET m == vorbis_comments_mut(blks)
        i == m.all[1]
        c == m.blocks[i].vorbis.comments
        old == IF ContainsKey(c, key) THEN c[key] ELSE <<>>
    IN  [blocks |-> [m.blocks EXCEPT ![i] = WithComments(@, MapInsert(c, key, old \o values))],
         all |-> m.all]

set_vorbis_key(blks, key, values) ==
    LET m == vorbis_comments_mut(blks)
        i == m.all[1]
    IN  [blocks |-> [m.blocks EXCEPT
                        ![i] = WithComments(@, MapInsert(@.vorbis.comments, key, values))],
         all |-> m.all]

InAll(all, i) == \E n \in 1..Len(all) : all[n] = i

\* a variant that removes the key from the first comment block only
remove_vorbis_key_first_only(blks, key) ==
    LET m == vorbis_comments_mut(blks)
    IN  [blocks |-> [i \in 1..Len(m.blocks) |->
                        IF i = m.all[1]
                        THEN WithComments(m.blocks[i], MapRemove(m.blocks[i].vorbis.comments, key))
                        ELSE m.blocks[i]],
         all |-> m.all]

remove_vorbis_key(blks, key) ==
    LET m == vorbis_comments_mut(blks)
    IN  [blocks |-> [i \in 1..Len(m.blocks) |->
                        IF InAll(m.all, i)
                        THEN WithComments(m.blocks[i], MapRemove(m.blocks[i].vorbis.comments, key))
                        ELSE m.blocks[i]],
         all |-> m.all]

RetainValues(list, value) == LET Keep(v) == v # value IN SelectSeq(list, Keep)

\* a variant that drops the key once its list is empty
remove_vorbis_key_value_dropping(blks, key, value) ==
    LET m == vorbis_comments_mut(blks)
        Without(b) ==
            LET c == b.vorbis.comments
            IN  IF ~ContainsKey(c, key) THEN b
                ELSE IF RetainValues(c[key], value) = <<>> THEN WithComments(b, MapRemove(c, key))
                ELSE WithComments(b, MapInsert(c, key, RetainValues(c[key], value)))
    IN  [blocks |-> [i \in 1..Len(m.blocks) |->
                        IF InAll(m.all, i) THEN Without(m.blocks[i]) ELSE m.blocks[i]],
         all |-> m.all]

remove_vorbis_key_value(blks, key, value) ==
    LET m == vorbis_comments_mut(blks)
        Without(b) ==
            LET c == b.vorbis.comments
            IN  IF ContainsKey(c, key)
                THEN WithComments(b, MapInsert(c, key, RetainValues(c[key], value)))
                ELSE b
    IN  [blocks |-> [i \in 1..Len(m.blocks) |->
                        IF InAll(m.all, i) THEN Without(m.blocks[i]) ELSE m.blocks[i]],
         all |-> m.all]

(***************************************************************************)
(* Pictures: Picture::new, FlacTag::add_picture, remove_picture_type,      *)
(* set_picture and remove_picture.                                         *)
(***************************************************************************)
NewPicture ==
    [picture_type |-> "Other", mime_type |-> "", description |-> "",
     width |-> 0, height |-> 0, depth |-> 0, num_colors |-> 0, data |-> <<>>]

\* a variant that removes the Picture blocks of every type
remove_picture_type_any(blks, picture_type) ==
    LET Keep(b) == ~IsPicture(b) IN SelectSeq(blks, Keep)

remove_picture_type(blks, picture_type) ==
    LET Keep(b) == IF IsPicture(b) THEN b.picture.picture_type # picture_type ELSE TRUE
    IN  SelectSeq(blks, Keep)

\* a variant that pushes the picture without removing the ones of its type
add_picture_not_removing(blks, mime_type, picture_type, data) ==
    Append(blks,
           PictureBlock([NewPicture EXCEPT !.mime_type = mime_type,
                                           !.picture_type = picture_type,
                                           !.data = data]))

add_picture(blks, mime_type, picture_type, data) ==
    Append(remove_picture_type(blks, picture_type),
           PictureBlock([NewPicture EXCEPT !.mime_type = mime_type,
                                           !.picture_type = picture_type,
                                           !.data = data]))

remove_picture(blks) ==
    LET Keep(b) == block_type(b) # BlockTypeCode("Picture") IN SelectSeq(blks, Keep)

set_picture(blks, mime_type, data) ==
    add_picture(remove_picture(blks), mime_type, "Other", data)

(***************************************************************************)
(* The blocks a caller hands to add_block.                                 *)
(***************************************************************************)
\* A file system in which no path names a file.
NoFiles == [p \in {} |-> <<>>]

PaddingSizes == {U32(0, 10), U32(255, 65535), U32(65535, 65535)}

TagBlocks ==
    {StreamInfoBlock(<<1>>), SeekTableBlock(<<2>>), UnknownBlock(20, <<>>)}
    \cup {PaddingBlock(s) : s \in PaddingSizes}

WriterCaps == {0, 1, 2, MaxBlocks + 2}

\* The readers handed to skip_metadata: an ident, blocks given by their flag,
\* type code and payload (one payload looks like a header with the flag set),
\* and the bytes after them; only the first `cut` bytes are there.
ScanIdents == {Magic, <<82, 73, 70, 70>>, <<102, 76>>}

ScanBlocks ==
    {[last |-> l, code |-> c.code, payload |-> c.payload] :
        l \in BOOLEAN,
        c \in {[code |-> 1, payload |-> <<>>], [code |-> 127, payload |-> <<128, 0, 0, 0>>]}}

RECURSIVE ScanBlockLists(_)
ScanBlockLists(n) ==
    IF n = 0 THEN {<<>>}
    ELSE ScanBlockLists(n - 1)
         \cup {Append(l, f) : l \in {k \in ScanBlockLists(n - 1) : Len(k) = n - 1},
                              f \in ScanBlocks}

ScanTails == {<<>>, <<9, 8>>}

StreamBytes(ident, list, tail) == ident \o BlocksBytes(list) \o tail

\* the I/O calls of the longest run: read_exact, then read_be_u32 and seek for
\* each block, read_to_end, and the seek and read_to_end of try_io!
MaxCalls == 2 * MaxScanBlocks + 4

\* the streams the readers of skip_metadata are over
ScanStreams ==
    {[name |-> "reader", ident |-> ident, list |-> list, tail |-> tail] :
        ident \in ScanIdents, list \in ScanBlockLists(MaxScanBlocks), tail \in ScanTails}

\* The files of the file system, their blocks and what is put into them: a
\* FLAC file with one block and one with two, both with data after the
\* blocks (bytes that no ident and no block of the tag holds), a file of
\* another format, and a FLAC file that ends in a header.
Paths == {"a.flac"}

FileBlocks == {StreamInfoBlock(<<1>>), PaddingBlock(U32(0, 2))}

FlacFiles ==
    {[list |-> <<[last |-> TRUE, code |-> 0, payload |-> <<1>>]>>, tail |-> <<201, 200>>],
     [list |-> <<[last |-> FALSE, code |-> 0, payload |-> <<1>>],
                 [last |-> TRUE, code |-> 1, payload |-> <<0>>]>>, tail |-> <<199>>]}

FileContents ==
    {StreamBytes(Magic, f.list, f.tail) : f \in FlacFiles}
    \cup {<<82, 73, 70, 70, 9>>, Magic \o <<0, 0>>}

\* of the calls of skip_metadata, the first and the third may fail
IoFaults ==
    {NoFault, [kind |-> "open", n |-> 0], [kind |-> "open_mode", n |-> 0]}
    \cup {[kind |-> "scan", n |-> k] : k \in {1, 3}}
    \cup {[kind |-> "write", n |-> k] : k \in 0..MaxTagBlocks}
    \cup {[kind |-> "write_all", n |-> k] : k \in 0..1}

\* The streams handed to read_from: an ident, then frames with and without the
\* last-block flag, also none with it and some after the first with it.
ReaderIdents == {"fLaC", "RIFF"} \cup ShortIdents

ReaderFrames ==
    {Frame(is_last, b) : is_last \in BOOLEAN, b \in {StreamInfoBlock(<<1>>), PaddingBlock(U32(0, 10))}}

RECURSIVE FrameLists(_)
FrameLists(n) ==
    IF n = 0 THEN {<<>>}
    ELSE FrameLists(n - 1)
         \cup {Append(l, f) : l \in {k \in FrameLists(n - 1) : Len(k) = n - 1}, f \in ReaderFrames}

ReaderStreams == {[ident |-> id, frames |-> l] : id \in ReaderIdents, l \in FrameLists(MaxFrames)}

Keys == {"key", "other"}

Value1 == <<"v", "1">>
Value2 == <<"v", "2">>
Values == {Value1, Value2}
ValueLists == {<<>>, <<Value1>>, <<Value1, Value2>>}

PictureTypes == {"CoverFront", "Other"}

Images == {[mime_type |-> "image/jpeg", data |-> <<255>>],
           [mime_type |-> "image/png", data |-> <<171>>]}

CommentBlocks ==
    {VorbisCommentBlock([vendor_string |-> <<"x">>, comments |-> ("key" :> <<Value2>>)]),
     VorbisCommentBlock([vendor_string |-> <<"y">>,
                         comments |-> ("key" :> <<Value1>> @@ "other" :> <<Value2>>)]),
     UnknownBlock(20, <<>>)}

\* Blocks of every kind, for the operations taken together.
AnyBlocks ==
    {UnknownBlock(20, <<>>), PaddingBlock(U32(0, 10)),
     VorbisCommentBlock([vendor_string |-> <<"x">>, comments |-> ("key" :> <<Value2>>)]),
     PictureBlock([NewPicture EXCEPT !.picture_type = "CoverFront",
                                     !.mime_type = "image/jpeg", !.description = "d"])}

(***************************************************************************)
(* The state after FlacTag::new(), and the operations.                     *)
(***************************************************************************)
Init ==
    /\ blocks = <<>>
    /\ fault = "none"
    /\ overflow_checks \in BOOLEAN
    /\ op = [name |-> "new"]
    /\ pre = <<>>
    /\ ret = "unit"
    /\ out = EmptyStream
    /\ wres = "none"
    /\ npadding = 0
    /\ path = <<>>
    /\ file = NoFiles

AddBlock ==
    /\ fault = "none"
    /\ Len(blocks) < MaxBlocks
    /\ \E b \in TagBlocks :
        /\ IsPadding(b) => npadding < MaxPadding
        /\ blocks' = add_block(blocks, b)
        /\ op' = [name |-> "add_block", block |-> b]
        /\ npadding' = IF IsPadding(b) THEN npadding + 1 ELSE npadding
    /\ pre' = blocks
    /\ ret' = "unit"
    /\ UNCHANGED <<fault, overflow_checks, out, wres, path, file>>

RemoveBlocksWithType ==
    /\ fault = "none"
    /\ \E code \in {0, 1, 3, 20} :
        /\ blocks' = remove_blocks_with_type(blocks, code)
        /\ op' = [name |-> "remove_blocks_with_type", block_type |-> code]
    /\ pre' = blocks
    /\ ret' = "unit"
    /\ UNCHANGED <<fault, overflow_checks, out, wres, npadding, path, file>>

AggregatePadding ==
    /\ fault = "none"
    /\ LET r == aggregate_padding(blocks, overflow_checks)
       IN  /\ blocks' = r.blocks
           /\ fault' = r.fault
    /\ op' = [name |-> "aggregate_padding"]
    /\ pre' = blocks
    /\ ret' = "unit"
    /\ UNCHANGED <<overflow_checks, out, wres, npadding, path, file>>

\* o1: the stream this tag was decoded from by the operation just before, when
\* that stream is the complete output of a write_to.
WriteTo ==
    /\ fault = "none"
    /\ \E cap \in WriterCaps :
        LET r == write_to(blocks, overflow_checks, cap)
        IN  /\ blocks' = r.blocks
            /\ fault' = r.fault
            /\ out' = r.out
            /\ wres' = r.res
            /\ ret' = IF r.res = "ok" THEN "Ok" ELSE "Err"
            /\ op' = [name |-> "write_to", err |-> r.err,
                      o1 |-> IF op.name = "read_from" /\ ret = "Ok" /\ wres = "ok"
                             THEN out ELSE EmptyStream]
    /\ pre' = blocks
    /\ UNCHANGED <<overflow_checks, npadding, path, file>>

ReadFrom ==
    /\ fault = "none"
    /\ wres \in {"ok", "err"}
    /\ LET r == read_from(out)
       IN  /\ blocks' = IF r.ok THEN r.blocks ELSE blocks
           /\ path' = IF r.ok THEN None ELSE path
           /\ ret' = IF r.ok THEN "Ok" ELSE "Err"
    /\ op' = [name |-> "read_from"]
    /\ pre' = blocks
    /\ UNCHANGED <<fault, overflow_checks, out, wres, npadding, file>>

\* read_from on the reader at hand; an Err returns no tag
ReadFromReader ==
    /\ fault = "none"
    /\ op.name = "reader"
    /\ LET r == read_from(op.stream)
       IN  /\ blocks' = IF r.ok THEN r.blocks ELSE blocks
           /\ ret' = IF r.ok THEN "Ok" ELSE "Err"
           /\ op' = [op EXCEPT !.name = "read_from", !.err = r.err]
    /\ pre' = blocks
    /\ UNCHANGED <<fault, overflow_checks, out, wres, npadding, path, file>>

\* skip_metadata on a reader over the first `cut` bytes of the stream at hand
ScanMetadata ==
    /\ fault = "none"
    /\ op.name = "reader"
    /\ LET full == StreamBytes(op.ident, op.list, op.tail)
       IN  \E cut \in 0..Len(full), fail_at \in 0..MaxCalls :
               LET bytes == SubSeq(full, 1, cut)
                   r == skip_metadata(bytes, fail_at)
               IN  /\ ret' = r.data
                   /\ op' = [name |-> "skip_metadata", ident |-> op.ident, list |-> op.list,
                             tail |-> op.tail, bytes |-> bytes, whole |-> cut = Len(full),
                             fail_at |-> fail_at, failed |-> r.failed, at |-> r.at]
    /\ pre' = blocks
    /\ UNCHANGED <<blocks, fault, overflow_checks, out, wres, npadding, path, file>>

(***************************************************************************)
(* The operations on files.                                                *)
(***************************************************************************)
\* Something other than the tag puts a file at a path.
PutFile ==
    /\ fault = "none"
    /\ \E p \in Paths, bytes \in FileContents :
        /\ file' = [q \in DOMAIN file \cup {p} |-> IF q = p THEN bytes ELSE file[q]]
        /\ op' = [name |-> "put_file", p |-> p]
    /\ pre' = blocks
    /\ ret' = "unit"
    /\ UNCHANGED <<blocks, fault, overflow_checks, out, wres, npadding, path>>

AddFileBlock ==
    /\ fault = "none"
    /\ Len(blocks) < MaxTagBlocks
    /\ \E b \in FileBlocks :
        /\ IsPadding(b) => npadding < MaxPadding
        /\ blocks' = add_block(blocks, b)
        /\ op' = [name |-> "add_block", block |-> b]
        /\ npadding' = IF IsPadding(b) THEN npadding + 1 ELSE npadding
    /\ pre' = blocks
    /\ ret' = "unit"
    /\ UNCHANGED <<fault, overflow_checks, out, wres, path, file>>

\* whether the file at p, if any, is short enough to be rewritten once more
Rewritable(p) == p \in DOMAIN file => Len(file[p]) <= MaxFileLen

WriteToPath ==
    /\ fault = "none"
    /\ \E p \in Paths, io \in IoFaults :
        /\ Rewritable(p)
        /\ LET r == write_to_path(blocks, file, p, overflow_checks, io)
           IN  /\ path' = Some(p)
               /\ blocks' = r.blocks
               /\ fault' = r.fault
               /\ file' = r.file
               /\ ret' = IF r.res = "ok" THEN "Ok" ELSE "Err"
               /\ op' = [name |-> "write_to_path", p |-> p, io |-> io, path |-> path,
                         files |-> file,
                         truncated |-> r.truncated]
    /\ pre' = blocks
    /\ UNCHANGED <<overflow_checks, out, wres, npadding>>

Save ==
    /\ fault = "none"
    /\ \E io \in IoFaults :
        /\ path # None => Rewritable(path[1])
        /\ LET r == save(blocks, file, path, overflow_checks, io)
           IN  /\ blocks' = r.blocks
               /\ fault' = r.fault
               /\ file' = r.file
               /\ ret' = IF r.res = "ok" THEN "Ok" ELSE "Err"
               /\ op' = [name |-> "save", p |-> IF path = None THEN "" ELSE path[1],
                         io |-> io, path |-> path,
                         files |-> file,
                         truncated |-> r.truncated]
    /\ pre' = blocks
    /\ UNCHANGED <<overflow_checks, out, wres, npadding, path>>

\* read_from on the file at a path as the reader: the tag has no path
ReadFromFile ==
    /\ fault = "none"
    /\ \E p \in DOMAIN file :
        LET r == read_from_file(file[p])
        IN  /\ blocks' = IF r.ok THEN r.blocks ELSE blocks
            /\ path' = IF r.ok THEN None ELSE path
            /\ ret' = IF r.ok THEN "Ok" ELSE "Err"
            /\ op' = [name |-> "read_from", p |-> p]
    /\ pre' = blocks
    /\ UNCHANGED <<fault, overflow_checks, out, wres, npadding, file>>

ReadFromPath ==
    /\ fault = "none"
    /\ \E p \in Paths, io \in {NoFault, [kind |-> "open", n |-> 0]} :
        LET r == read_from_path(file, p, io)
        IN  /\ blocks' = IF r.ok THEN r.blocks ELSE blocks
            /\ path' = IF r.ok THEN Some(p) ELSE path
            /\ ret' = IF r.ok THEN "Ok" ELSE "Err"
            /\ op' = [name |-> "read_from_path", p |-> p, io |-> io]
    /\ pre' = blocks
    /\ UNCHANGED <<fault, overflow_checks, out, wres, npadding, file>>

(***************************************************************************)
(* The comment operations.                                                 *)
(***************************************************************************)
AddCommentBlock ==
    /\ fault = "none"
    /\ Len(blocks) < MaxCommentBlocks
    /\ \E b \in CommentBlocks :
        /\ blocks' = add_block(blocks, b)
        /\ op' = [name |-> "add_block", block |-> b]
    /\ pre' = blocks
    /\ ret' = "unit"
    /\ UNCHANGED <<fault, overflow_checks, out, wres, npadding, path, file>>

VorbisCommentsMut ==
    /\ fault = "none"
    /\ LET m == vorbis_comments_mut(blocks)
       IN  /\ blocks' = m.blocks
           /\ ret' = m.all
           /\ op' = [name |-> "vorbis_comments_mut", all |-> m.all]
    /\ pre' = blocks
    /\ UNCHANGED <<fault, overflow_checks, out, wres, npadding, path, file>>

GetVorbisKey ==
    /\ fault = "none"
    /\ \E key \in Keys :
        /\ ret' = get_vorbis_key(blocks, key)
        /\ op' = [name |-> "get_vorbis_key", key |-> key]
    /\ pre' = blocks
    /\ UNCHANGED <<blocks, fault, overflow_checks, out, wres, npadding, path, file>>

SetVorbisKey ==
    /\ fault = "none"
    /\ \E key \in Keys, values \in ValueLists :
        LET r == set_vorbis_key(blocks, key, values)
        IN  /\ blocks' = r.blocks
            /\ op' = [name |-> "set_vorbis_key", key |-> key, values |-> values, all |-> r.all]
    /\ pre' = blocks
    /\ ret' = "unit"
    /\ UNCHANGED <<fault, overflow_checks, out, wres, npadding, path, file>>

RemoveVorbisKey ==
    /\ fault = "none"
    /\ \E key \in Keys :
        LET r == remove_vorbis_key(blocks, key)
        IN  /\ blocks' = r.blocks
            /\ op' = [name |-> "remove_vorbis_key", key |-> key, all |-> r.all]
    /\ pre' = blocks
    /\ ret' = "unit"
    /\ UNCHANGED <<fault, overflow_checks, out, wres, npadding, path, file>>

RemoveVorbisKeyValue ==
    /\ fault = "none"
    /\ \E key \in Keys, value \in Values :
        LET r == remove_vorbis_key_value(blocks, key, value)
        IN  /\ blocks' = r.blocks
            /\ op' = [name |-> "remove_vorbis_key_value", key |-> key, value |-> value,
                      all |-> r.all]
    /\ pre' = blocks
    /\ ret' = "unit"
    /\ UNCHANGED <<fault, overflow_checks, out, wres, npadding, path, file>>

(***************************************************************************)
(* The picture operations.                                                 *)
(***************************************************************************)
AddPicture ==
    /\ fault = "none"
    /\ \E img \in Images, t \in PictureTypes :
        /\ blocks' = add_picture(blocks, img.mime_type, t, img.data)
        /\ op' = [name |-> "add_picture", mime_type |-> img.mime_type, picture_type |-> t,
                  data |-> img.data]
    /\ pre' = blocks
    /\ ret' = "unit"
    /\ UNCHANGED <<fault, overflow_checks, out, wres, npadding, path, file>>

RemovePictureType ==
    /\ fault = "none"
    /\ \E t \in PictureTypes :
        /\ blocks' = remove_picture_type(blocks, t)
        /\ op' = [name |-> "remove_picture_type", picture_type |-> t]
    /\ pre' = blocks
    /\ ret' = "unit"
    /\ UNCHANGED <<fault, overflow_checks, out, wres, npadding, path, file>>

SetPicture ==
    /\ fault = "none"
    /\ \E img \in Images :
        /\ blocks' = set_picture(blocks, img.mime_type, img.data)
        /\ op' = [name |-> "set_picture", mime_type |-> img.mime_type, data |-> img.data]
    /\ pre' = blocks
    /\ ret' = "unit"
    /\ UNCHANGED <<fault, overflow_checks, out, wres, npadding, path, file>>

RemovePicture ==
    /\ fault = "none"
    /\ blocks' = remove_picture(blocks)
    /\ op' = [name |-> "remove_picture"]
    /\ pre' = blocks
    /\ ret' = "unit"
    /\ UNCHANGED <<fault, overflow_checks, out, wres, npadding, path, file>>

AddAnyBlock ==
    /\ fault = "none"
    /\ Len(blocks) < MaxTagBlocks
    /\ \E b \in AnyBlocks :
        /\ IsPadding(b) => npadding < MaxPadding
        /\ blocks' = add_block(blocks, b)
        /\ op' = [name |-> "add_block", block |-> b]
        /\ npadding' = IF IsPadding(b) THEN npadding + 1 ELSE npadding
    /\ pre' = blocks
    /\ ret' = "unit"
    /\ UNCHANGED <<fault, overflow_checks, out, wres, path, file>>

(***************************************************************************)
(* Spec: the tag under add_block, remove_blocks_with_type and              *)
(* aggregate_padding.  SpecWrite: the tag under add_block, write_to and    *)
(* read_from of what was written.                                          *)
(***************************************************************************)
Next ==
    \/ AddBlock
    \/ RemoveBlocksWithType
    \/ AggregatePadding

Spec == Init /\ [][Next]_vars

NextWrite ==
    \/ AddBlock
    \/ WriteTo
    \/ ReadFrom

SpecWrite == Init /\ [][NextWrite]_vars

\* SpecComments: the tag under add_block and the comment operations.
NextComments ==
    \/ AddCommentBlock
    \/ VorbisCommentsMut
    \/ GetVorbisKey
    \/ SetVorbisKey
    \/ RemoveVorbisKey
    \/ RemoveVorbisKeyValue

SpecComments == Init /\ [][NextComments]_vars

\* SpecPictures: a new tag under the picture and comment operations, without
\* add_block and without blocks_mut.
NextPictures ==
    \/ AddPicture
    \/ SetPicture
    \/ RemovePictureType
    \/ RemovePicture
    \/ VorbisCommentsMut
    \/ GetVorbisKey
    \/ SetVorbisKey
    \/ RemoveVorbisKey
    \/ RemoveVorbisKeyValue

SpecPictures == Init /\ [][NextPictures]_vars

\* Where no padding comes near the 32-bit limit, one build suffices.
InitTag == Init /\ overflow_checks

\* SpecRead: read_from on readers of every content.
InitRead ==
    /\ blocks = <<>>
    /\ fault = "none"
    /\ overflow_checks \in BOOLEAN
    /\ op \in {[name |-> "reader", stream |-> s, err |-> "none"] : s \in ReaderStreams}
    /\ pre = <<>>
    /\ ret = "unit"
    /\ out = EmptyStream
    /\ wres = "none"
    /\ npadding = 0
    /\ path = <<>>
    /\ file = NoFiles

NextRead == ReadFromReader

SpecRead == InitRead /\ [][NextRead]_vars

\* SpecScan: skip_metadata on readers of every content, with one failing call
\* or none.
InitScan ==
    /\ blocks = <<>>
    /\ fault = "none"
    /\ overflow_checks = TRUE
    /\ op \in ScanStreams
    /\ pre = <<>>
    /\ ret = "unit"
    /\ out = EmptyStream
    /\ wres = "none"
    /\ npadding = 0
    /\ path = <<>>
    /\ file = NoFiles

NextScan == ScanMetadata

SpecScan == InitScan /\ [][NextScan]_vars

\* SpecFile: the tag and the files under add_block, write_to_path, save,
\* read_from and read_from_path.
NextFile ==
    \/ PutFile
    \/ AddFileBlock
    \/ WriteToPath
    \/ Save
    \/ ReadFromFile
    \/ ReadFromPath

SpecFile == InitTag /\ [][NextFile]_vars

\* SpecTag: the tag under every operation on its blocks other than write_to,
\* the comment and picture operations with one input or two each.
NextTag ==
    \/ AddAnyBlock
    \/ RemoveBlocksWithType
    \/ AggregatePadding
    \/ VorbisCommentsMut
    \/ SetVorbisKey /\ op'.key = "key" /\ op'.values = <<Value1>>
    \/ RemoveVorbisKey /\ op'.key = "key"
    \/ RemoveVorbisKeyValue /\ op'.key = "key" /\ op'.value = Value2
    \/ AddPicture /\ (op'.mime_type = "image/jpeg" <=> op'.picture_type = "CoverFront")
    \/ RemovePictureType
    \/ SetPicture /\ op'.mime_type = "image/png"
    \/ RemovePicture

SpecTag == InitTag /\ [][NextTag]_vars

(***************************************************************************)
(* What the properties below are stated with.                              *)
(***************************************************************************)
Paddings(blks) == SelectSeq(blks, IsPadding)

NotPadding(b) == ~IsPadding(b)
NonPaddings(blks) == SelectSeq(blks, NotPadding)

StreamInfos(blks) == SelectSeq(blks, IsStreamInfo)

IsMiddle(b) == ~IsStreamInfo(b) /\ ~IsPadding(b)
Middles(blks) == SelectSeq(blks, IsMiddle)

\* The sum of one half of the sizes of the Padding blocks, as a natural number.
RECURSIVE SumHalf(_, _)
SumHalf(blks, h) ==
    IF blks = <<>> THEN 0
    ELSE (IF IsPadding(Head(blks)) THEN Head(blks).size[h] ELSE 0) + SumHalf(Tail(blks), h)

\* s1 + ... + sN as a natural number hi * 65536 + lo, written <<hi, lo>> with lo
\* below 65536 and hi unbounded: it is a u32 exactly when hi is below 65536.
ExactPaddingTotal(blks) ==
    <<SumHalf(blks, 1) + (SumHalf(blks, 2) \div 65536), SumHalf(blks, 2) % 65536>>

(***************************************************************************)
(* C1.  After aggregate_padding() the tag holds exactly one Padding block, *)
(* that block is the last block, its size is the sum s1 + ... + sN of the  *)
(* sizes of the Padding blocks the tag held (0 when it held none), and the *)
(* non-padding blocks are the same blocks in the same order.               *)
(***************************************************************************)
C1_AggregatePadding ==
    op.name = "aggregate_padding" =>
        /\ fault = "none"
        /\ Len(Paddings(blocks)) = 1
        /\ IsPadding(blocks[Len(blocks)])
        /\ blocks[Len(blocks)].size = ExactPaddingTotal(pre)
        /\ NonPaddings(blocks) = NonPaddings(pre)

\* The same, for the tags whose padding total is a u32.
C1_WhenTotalFits ==
    (op.name = "aggregate_padding" /\ ExactPaddingTotal(pre)[1] < 65536) =>
        /\ fault = "none"
        /\ Len(Paddings(blocks)) = 1
        /\ IsPadding(blocks[Len(blocks)])
        /\ blocks[Len(blocks)].size = ExactPaddingTotal(pre)
        /\ NonPaddings(blocks) = NonPaddings(pre)

(***************************************************************************)
(* C2.  The block sequence write_to leaves in the tag, which is the one it *)
(* serializes, has every StreamInfo block before every other block and     *)
(* every Padding block after every other block, and the blocks that are    *)
(* neither (and the StreamInfo blocks among themselves) are in the order   *)
(* they had before the write.                                              *)
(***************************************************************************)
C2_WriteOrdering ==
    (op.name = "write_to" /\ fault = "none") =>
        /\ \A i, j \in 1..Len(blocks) :
              i < j => /\ IsStreamInfo(blocks[j]) => IsStreamInfo(blocks[i])
                       /\ IsPadding(blocks[i]) => IsPadding(blocks[j])
        /\ Middles(blocks) = Middles(pre)
        /\ StreamInfos(blocks) = StreamInfos(pre)
        /\ \A i \in 1..Len(out.frames) : DecodeBlock(out.frames[i]) = blocks[i]
        /\ wres = "ok" => Len(out.frames) = Len(blocks)

C2_Witness ==
    /\ op.name = "write_to"
    /\ wres = "ok"
    /\ Len(Middles(pre)) >= 2
    /\ Middles(pre)[1] # Middles(pre)[2]
    /\ \E i, j \in 1..Len(pre) : i < j /\ ~IsStreamInfo(pre[i]) /\ IsStreamInfo(pre[j])

(***************************************************************************)
(* C3.  A successful write_to emits the magic followed by at least one     *)
(* block; the last-block flag is set on the final block of the sorted      *)
(* sequence and on no earlier block.  This covers a tag with no blocks.    *)
(***************************************************************************)
C3_LastBlockFlag ==
    (op.name = "write_to" /\ wres = "ok") =>
        /\ out.ident = "fLaC"
        /\ Len(out.frames) >= 1
        /\ Len(out.frames) = Len(blocks)
        /\ \A i \in 1..Len(out.frames) : FrameIsLast(out.frames[i]) <=> i = Len(out.frames)

C3_Witness ==
    /\ op.name = "write_to"
    /\ wres = "ok"
    /\ pre = <<>>
    /\ Len(out.frames) = 1

C3_WitnessMany ==
    /\ op.name = "write_to"
    /\ wres = "ok"
    /\ Len(out.frames) >= 3

(***************************************************************************)
(* C4.  Round trip: when write_to produced O1, read_from decoded O1 into   *)
(* a tag, and write_to on that tag, not changed in between, produces O2,   *)
(* then O2 = O1; and the normalization of write_to (aggregate_padding,     *)
(* then the sort) applied to a tag write_to has normalized changes         *)
(* nothing.                                                                *)
(***************************************************************************)
C4_RoundTrip ==
    /\ (op.name = "write_to" /\ wres = "ok" /\ op.o1 # EmptyStream) => out = op.o1
    /\ (op.name = "write_to" /\ fault = "none") =>
          LET again == aggregate_padding(blocks, overflow_checks)
          IN  again.fault = "none" /\ normalize(again.blocks) = blocks

C4_Witness ==
    /\ op.name = "write_to"
    /\ wres = "ok"
    /\ op.o1 # EmptyStream
    /\ Len(out.frames) >= 3
    /\ \E i \in 1..Len(out.frames) : out.frames[i].payload = [zeros |-> U32(255, 65535)]

(***************************************************************************)
(* The comment blocks of a tag, as the properties below read them.         *)
(***************************************************************************)
VorbisAt(blks) == {i \in 1..Len(blks) : IsVorbisComment(blks[i])}

CommentsAt(blks, i) == blks[i].vorbis.comments

HoldsKey(blks, key) == \E i \in VorbisAt(blks) : key \in DOMAIN CommentsAt(blks, i)

\* The values under key in blocks from..to, in block order.
RECURSIVE ValuesIn(_, _, _, _)
ValuesIn(blks, key, from, to) ==
    IF to < from THEN <<>>
    ELSE ValuesIn(blks, key, from, to - 1)
         \o (IF to \in VorbisAt(blks) /\ key \in DOMAIN CommentsAt(blks, to)
             THEN CommentsAt(blks, to)[key] ELSE <<>>)

ValuesUnder(blks, key) == ValuesIn(blks, key, 1, Len(blks))

FirstVorbis(blks) == CHOOSE i \in VorbisAt(blks) : \A j \in VorbisAt(blks) : i <= j

\* The values under key in the comment blocks after the first one.
LaterValues(blks, key) == ValuesIn(blks, key, FirstVorbis(blks) + 1, Len(blks))

\* The values of a list with ", " between them.
RECURSIVE Joined(_)
Joined(list) ==
    IF list = <<>> THEN <<>>
    ELSE IF Len(list) = 1 THEN list[1]
    ELSE Joined(SubSeq(list, 1, Len(list) - 1)) \o <<",", " ">> \o list[Len(list)]

\* Block i keeps every key other than key, with its list.
OtherKeysKept(before, after, i, key) ==
    \A k \in (DOMAIN CommentsAt(before, i) \cup DOMAIN CommentsAt(after, i)) \ {key} :
        /\ k \in DOMAIN CommentsAt(before, i)
        /\ k \in DOMAIN CommentsAt(after, i)
        /\ CommentsAt(after, i)[k] = CommentsAt(before, i)[k]

\* The list without the elements equal to value, by position.
RECURSIVE Without(_, _)
Without(list, value) ==
    IF list = <<>> THEN <<>>
    ELSE (IF Head(list) = value THEN <<>> ELSE <<Head(list)>>) \o Without(Tail(list), value)

(***************************************************************************)
(* C5 as claimed.  For every tag, key and non-empty list of values,        *)
(* set_vorbis_key(key, values) and then get_vorbis_key(key) returns        *)
(* exactly the values joined with ", ".                                    *)
(***************************************************************************)
C5_SetThenGet ==
    (op.name = "set_vorbis_key" /\ op.values # <<>>) =>
        get_vorbis_key(blocks, op.key) = Some(Joined(op.values))

(***************************************************************************)
(* C5 as amended.  set_vorbis_key(key, values) with a non-empty list and   *)
(* then get_vorbis_key(key) returns the values followed by the values the  *)
(* comment blocks after the first one store under key, joined with ", ";   *)
(* so exactly the values joined when no later comment block stores a       *)
(* value under key.                                                        *)
(***************************************************************************)
C5_SetThenGetAmended ==
    (op.name = "set_vorbis_key" /\ op.values # <<>>) =>
        /\ get_vorbis_key(blocks, op.key)
              = Some(Joined(op.values \o LaterValues(blocks, op.key)))
        /\ LaterValues(blocks, op.key) = <<>>
              => get_vorbis_key(blocks, op.key) = Some(Joined(op.values))

C5_Witness ==
    /\ op.name = "set_vorbis_key"
    /\ op.values = <<Value1, Value2>>
    /\ Cardinality(VorbisAt(pre)) >= 2
    /\ op.key \in DOMAIN CommentsAt(pre, FirstVorbis(pre))
    /\ LaterValues(blocks, op.key) = <<>>
    /\ get_vorbis_key(blocks, op.key) = Some(Value1 \o <<",", " ">> \o Value2)

(***************************************************************************)
(* C6 as claimed.  get_vorbis_key(key) returns the values stored under key *)
(* in every comment block, block by block and in list order, joined with   *)
(* ", "; it returns absent when no comment block contains key; it does not *)
(* change the tag.                                                         *)
(***************************************************************************)
C6_GetVorbisKey ==
    op.name = "get_vorbis_key" =>
        /\ ret = IF HoldsKey(blocks, op.key)
                 THEN Some(Joined(ValuesUnder(blocks, op.key)))
                 ELSE None
        /\ blocks = pre

(***************************************************************************)
(* C6 as amended.  get_vorbis_key(key) returns absent when no comment      *)
(* block stores a value under key (no block contains key, or every block   *)
(* that contains it has an empty list for it), and otherwise the values    *)
(* stored under key, block by block and in list order, joined with ", ";   *)
(* it does not change the tag.                                             *)
(***************************************************************************)
C6_GetVorbisKeyAmended ==
    op.name = "get_vorbis_key" =>
        /\ ret = IF ValuesUnder(blocks, op.key) = <<>>
                 THEN None
                 ELSE Some(Joined(ValuesUnder(blocks, op.key)))
        /\ blocks = pre

C6_Witness ==
    /\ op.name = "get_vorbis_key"
    /\ \E i, j \in VorbisAt(blocks) :
          /\ i < j
          /\ op.key \in DOMAIN CommentsAt(blocks, i)
          /\ op.key \in DOMAIN CommentsAt(blocks, j)
          /\ Len(CommentsAt(blocks, i)[op.key]) = 2
          /\ Len(CommentsAt(blocks, j)[op.key]) = 1
    /\ ret # None
    /\ Len(ret[1]) = 10

(***************************************************************************)
(* C7.  After remove_vorbis_key(key) no comment block of the tag contains  *)
(* key, get_vorbis_key(key) returns absent, and every other key of every   *)
(* comment block keeps its list.                                           *)
(***************************************************************************)
C7_RemoveVorbisKey ==
    op.name = "remove_vorbis_key" =>
        /\ ~HoldsKey(blocks, op.key)
        /\ get_vorbis_key(blocks, op.key) = None
        /\ \A i \in VorbisAt(pre) :
              i \in VorbisAt(blocks) /\ OtherKeysKept(pre, blocks, i, op.key)

C7_Witness ==
    /\ op.name = "remove_vorbis_key"
    /\ \E i, j \in VorbisAt(pre) :
          /\ i < j
          /\ op.key \in DOMAIN CommentsAt(pre, i)
          /\ op.key \in DOMAIN CommentsAt(pre, j)
          /\ DOMAIN CommentsAt(blocks, j) # {}

(***************************************************************************)
(* C8.  After remove_vorbis_key_value(key, value), in every comment block  *)
(* that contained key the list of key is the old list without the elements *)
(* equal to value, the rest in their old order; key stays present even     *)
(* with an empty list; the other keys are unchanged.  Hence on a fresh tag *)
(* set_vorbis_key(key, [v1, v2]) with v1 # v2 and then                     *)
(* remove_vorbis_key_value(key, v1) make get_vorbis_key(key) return v2.    *)
(***************************************************************************)
C8_RemoveVorbisKeyValue ==
    op.name = "remove_vorbis_key_value" =>
        /\ \A i \in VorbisAt(pre) :
              /\ i \in VorbisAt(blocks)
              /\ OtherKeysKept(pre, blocks, i, op.key)
              /\ op.key \in DOMAIN CommentsAt(pre, i) <=> op.key \in DOMAIN CommentsAt(blocks, i)
              /\ op.key \in DOMAIN CommentsAt(pre, i) =>
                    CommentsAt(blocks, i)[op.key] = Without(CommentsAt(pre, i)[op.key], op.value)
        /\ \A k \in Keys, v1, v2 \in Values :
              (/\ v1 # v2
               /\ op.key = k
               /\ op.value = v1
               /\ pre = <<VorbisCommentBlock([vendor_string |-> <<>>,
                                              comments |-> (k :> <<v1, v2>>)])>>)
              => get_vorbis_key(blocks, k) = Some(v2)

C8_Witness ==
    /\ op.name = "remove_vorbis_key_value"
    /\ \E i \in VorbisAt(pre) :
          /\ op.key \in DOMAIN CommentsAt(pre, i)
          /\ CommentsAt(pre, i)[op.key] = <<op.value>>
          /\ CommentsAt(blocks, i)[op.key] = <<>>
    /\ \E j \in VorbisAt(pre) :
          /\ op.key \in DOMAIN CommentsAt(pre, j)
          /\ Len(CommentsAt(pre, j)[op.key]) = 2
          /\ Len(CommentsAt(blocks, j)[op.key]) = 1

C8_WitnessFresh ==
    /\ op.name = "remove_vorbis_key_value"
    /\ op.value = Value1
    /\ pre = <<VorbisCommentBlock([vendor_string |-> <<>>,
                                   comments |-> (op.key :> <<Value1, Value2>>)])>>
    /\ get_vorbis_key(blocks, op.key) = Some(Value2)

(***************************************************************************)
(* C9.  vorbis_comments_mut, and set_vorbis_key, remove_vorbis_key and     *)
(* remove_vorbis_key_value through it: when the tag holds no comment       *)
(* block, one comment block, empty when vorbis_comments_mut returns, is    *)
(* appended at the end of the block sequence; when it holds some, none is  *)
(* added or removed.  The list returned has one entry per comment block,   *)
(* in block order, so at least one.                                        *)
(***************************************************************************)
ThroughVorbisCommentsMut ==
    op.name \in {"vorbis_comments_mut", "set_vorbis_key", "remove_vorbis_key",
                 "remove_vorbis_key_value"}

C9_VorbisCommentsMut ==
    ThroughVorbisCommentsMut =>
        /\ VorbisAt(pre) = {} =>
              /\ Len(blocks) = Len(pre) + 1
              /\ SubSeq(blocks, 1, Len(pre)) = pre
              /\ IsVorbisComment(blocks[Len(blocks)])
              /\ op.name = "vorbis_comments_mut" =>
                    blocks[Len(blocks)] = VorbisCommentBlock(NewVorbisComment)
        /\ VorbisAt(pre) # {} =>
              /\ Len(blocks) = Len(pre)
              /\ VorbisAt(blocks) = VorbisAt(pre)
        /\ op.all = Ascending(VorbisAt(blocks))
        /\ Len(op.all) >= 1
        /\ op.name = "vorbis_comments_mut" => ret = op.all

C9_Witness ==
    /\ op.name = "vorbis_comments_mut"
    /\ Len(pre) >= 1
    /\ VorbisAt(pre) = {}
    /\ blocks = Append(pre, VorbisCommentBlock(NewVorbisComment))
    /\ ret = <<Len(blocks)>>

C9_WitnessSome ==
    /\ op.name = "set_vorbis_key"
    /\ Cardinality(VorbisAt(pre)) = 2
    /\ Len(op.all) = 2

(***************************************************************************)
(* C10.  In every tag reached from an empty tag by add_picture,            *)
(* set_picture, remove_picture_type, remove_picture and the comment        *)
(* operations, no two Picture blocks have the same picture type; and       *)
(* add_picture(mime, c, data) removes the pictures of type c and appends   *)
(* one picture with that mime type, type and data.                         *)
(***************************************************************************)
PicturesAt(blks) == {i \in 1..Len(blks) : IsPicture(blks[i])}

NotOfType(blks, c) ==
    LET Other(b) == ~(IsPicture(b) /\ b.picture.picture_type = c) IN SelectSeq(blks, Other)

C10_PictureUniqueness ==
    /\ \A i, j \in PicturesAt(blocks) :
          i # j => blocks[i].picture.picture_type # blocks[j].picture.picture_type
    /\ op.name = "add_picture" =>
          /\ Len(blocks) >= 1
          /\ IsPicture(blocks[Len(blocks)])
          /\ blocks[Len(blocks)].picture.mime_type = op.mime_type
          /\ blocks[Len(blocks)].picture.picture_type = op.picture_type
          /\ blocks[Len(blocks)].picture.data = op.data
          /\ SubSeq(blocks, 1, Len(blocks) - 1) = NotOfType(pre, op.picture_type)
          /\ Len(NotOfType(blocks, op.picture_type)) = Len(blocks) - 1

C10_Witness ==
    /\ op.name = "add_picture"
    /\ Cardinality(PicturesAt(pre)) = 2
    /\ IsPicture(pre[1])
    /\ pre[1].picture.picture_type = op.picture_type
    /\ pre[1].picture.mime_type # op.mime_type
    /\ Cardinality(PicturesAt(blocks)) = 2
    /\ VorbisAt(blocks) # {}

(***************************************************************************)
(* C11.  After remove_picture_type(c) no Picture block of type c remains   *)
(* and every other block is still there, unchanged and in the same         *)
(* relative order.  So add_picture of a CoverFront picture and then of an  *)
(* Other picture give 2 pictures, and remove_picture_type(CoverFront)      *)
(* leaves exactly the Other picture, with its mime type and data.          *)
(***************************************************************************)
JpegFront ==
    PictureBlock([NewPicture EXCEPT !.mime_type = "image/jpeg",
                                    !.picture_type = "CoverFront", !.data = <<255>>])

PngOther ==
    PictureBlock([NewPicture EXCEPT !.mime_type = "image/png",
                                    !.picture_type = "Other", !.data = <<171>>])

C11_RemovePictureType ==
    /\ op.name = "remove_picture_type" =>
          /\ \A i \in PicturesAt(blocks) : blocks[i].picture.picture_type # op.picture_type
          /\ blocks = NotOfType(pre, op.picture_type)
          /\ (pre = <<JpegFront, PngOther>> /\ op.picture_type = "CoverFront")
                => blocks = <<PngOther>>
    /\ (op.name = "add_picture" /\ pre = <<JpegFront>> /\ op.picture_type = "Other")
          => Cardinality(PicturesAt(blocks)) = 2

C11_Witness ==
    /\ op.name = "remove_picture_type"
    /\ op.picture_type = "CoverFront"
    /\ pre = <<JpegFront, PngOther>>
    /\ blocks = <<PngOther>>

C11_WitnessTwoOfType ==
    /\ op.name = "remove_picture_type"
    /\ Len(pre) = 3
    /\ \A i \in {1, 2} : IsPicture(pre[i]) /\ pre[i].picture.picture_type = op.picture_type
    /\ blocks = <<pre[3]>>

(***************************************************************************)
(* C19.  Every operation other than write_to keeps the relative order of   *)
(* the blocks that are in the tag before and after it, and places a block  *)
(* it creates at the end: the blocks after the operation are blocks of     *)
(* before it, in their old order (a comment block possibly with its        *)
(* comments changed), followed by the block the operation created.         *)
(***************************************************************************)
\* whether block a of after the operation is block b of before it
SameBlock(a, b) ==
    \/ a = b
    \/ /\ ThroughVorbisCommentsMut
       /\ IsVorbisComment(a)
       /\ IsVorbisComment(b)
       /\ a.vorbis.vendor_string = b.vorbis.vendor_string

\* whether the first n blocks of after are, in order, among the first m of before
RECURSIVE InOrder(_, _, _, _)
InOrder(after, n, before, m) ==
    IF n = 0 THEN TRUE
    ELSE IF m = 0 THEN FALSE
    ELSE \/ SameBlock(after[n], before[m]) /\ InOrder(after, n - 1, before, m - 1)
         \/ InOrder(after, n, before, m - 1)

\* how many blocks the operation creates
Created ==
    CASE op.name \in {"add_block", "add_picture", "set_picture", "aggregate_padding"} -> 1
      [] ThroughVorbisCommentsMut -> IF VorbisAt(pre) = {} THEN 1 ELSE 0
      [] OTHER -> 0

C19_NoReordering ==
    (op.name # "new" /\ fault = "none") =>
        /\ Len(blocks) >= Created
        /\ InOrder(blocks, Len(blocks) - Created, pre, Len(pre))
        /\ op.name = "add_block" => blocks[Len(blocks)] = op.block
        /\ op.name = "aggregate_padding" => IsPadding(blocks[Len(blocks)])
        /\ op.name \in {"add_picture", "set_picture"} => IsPicture(blocks[Len(blocks)])
        /\ (ThroughVorbisCommentsMut /\ Created = 1) => IsVorbisComment(blocks[Len(blocks)])
        /\ Created = 0 => Len(blocks) <= Len(pre)

C19_Witness ==
    /\ op.name = "aggregate_padding"
    /\ Len(pre) = 3
    /\ IsPadding(pre[1])
    /\ ~IsPadding(pre[2])
    /\ ~IsPadding(pre[3])
    /\ pre[2] # pre[3]
    /\ blocks = <<pre[2], pre[3], PaddingBlock(U32(0, 10))>>

(***************************************************************************)
(* C18.  set_vorbis_key(key, values) changes only the entry for key in the *)
(* first VorbisComment block (the one it creates, at the end, when the tag *)
(* has none): the other keys of that block, every entry of every later     *)
(* VorbisComment block and every other block are as before.                *)
(***************************************************************************)
C18_SetVorbisKeyFrame ==
    op.name = "set_vorbis_key" =>
        LET f == FirstVorbis(blocks)
            had == VorbisAt(pre) # {}
            before == IF had THEN pre ELSE Append(pre, VorbisCommentBlock(NewVorbisComment))
        IN  /\ VorbisAt(blocks) # {}
            /\ Len(blocks) = Len(before)
            /\ had => f = FirstVorbis(pre)
            /\ ~had => f = Len(blocks)
            /\ \A i \in 1..Len(blocks) : i # f => blocks[i] = before[i]
            /\ blocks[f].vorbis.vendor_string = before[f].vorbis.vendor_string
            /\ OtherKeysKept(before, blocks, f, op.key)
            /\ op.key \in DOMAIN CommentsAt(blocks, f)
            /\ CommentsAt(blocks, f)[op.key] = op.values

C18_Witness ==
    /\ op.name = "set_vorbis_key"
    /\ op.key = "key"
    /\ Cardinality(VorbisAt(pre)) = 2
    /\ \A i \in VorbisAt(pre) : "key" \in DOMAIN CommentsAt(pre, i)
    /\ "other" \in DOMAIN CommentsAt(pre, FirstVorbis(pre))
    /\ CommentsAt(pre, FirstVorbis(pre))["key"] # op.values
    /\ blocks # pre

C18_WitnessCreated ==
    /\ op.name = "set_vorbis_key"
    /\ VorbisAt(pre) = {}
    /\ Len(pre) >= 1
    /\ Len(blocks) = Len(pre) + 1

(***************************************************************************)
(* C14.  When encoding or writing a block fails during write_to, the call  *)
(* returns the error and the writer has received nothing: the output is    *)
(* the ident with all the blocks, or it is empty.                          *)
(***************************************************************************)
C14_AtomicFailure ==
    (op.name = "write_to" /\ wres = "err") => (ret = "Err" /\ out = EmptyStream)

\* What the writer has received when write_to fails: nothing when the ident
\* was refused, else the ident and the frames of the blocks before the failing one.
C14_PartialOutput ==
    (op.name = "write_to" /\ wres = "err") =>
        /\ ret = "Err"
        /\ out # EmptyStream =>
              /\ out.ident = "fLaC"
              /\ Len(out.frames) < Len(blocks)
              /\ \A i \in 1..Len(out.frames) : out.frames[i] = Frame(FALSE, blocks[i])

C14_WitnessPartial ==
    /\ op.name = "write_to"
    /\ wres = "err"
    /\ Len(blocks) = 3
    /\ out.ident = "fLaC"
    /\ Len(out.frames) = 2
    /\ IsPadding(blocks[3])
    /\ ~Encodable(blocks[3])

(***************************************************************************)
(* C16.  read_from on a stream that does not begin with fLaC fails with a  *)
(* FormatError and returns no tag; on a stream that begins with fLaC it    *)
(* returns the blocks decoded in stream order up to and including the      *)
(* first one with the last-block flag, and nothing after it; an error of   *)
(* decoding a block is returned and no tag with it.                        *)
(***************************************************************************)
\* the kind tag.rs gives the error the specification calls FormatError
FormatError == "InvalidInputError"

\* the place of the first frame with the last-block flag, 0 when there is none
FirstLast(frames) ==
    IF \E i \in 1..Len(frames) : FrameIsLast(frames[i])
    THEN CHOOSE i \in 1..Len(frames) :
            FrameIsLast(frames[i]) /\ \A j \in 1..(i - 1) : ~FrameIsLast(frames[j])
    ELSE 0

C16_DecodesToFirstLast ==
    (op.name = "read_from" /\ op.stream.ident = "fLaC") =>
        LET n == FirstLast(op.stream.frames)
        IN  IF n = 0
            THEN ret = "Err" /\ op.err = "Block::read_from" /\ blocks = pre
            ELSE /\ ret = "Ok"
                 /\ Len(blocks) = n
                 /\ \A i \in 1..n : blocks[i] = DecodeBlock(op.stream.frames[i])

C16_ReadFrom ==
    /\ (op.name = "read_from" /\ op.stream.ident # "fLaC") =>
          (ret = "Err" /\ op.err = FormatError /\ blocks = pre)
    /\ C16_DecodesToFirstLast

\* A stream that ends inside its first 4 bytes fails with the error of the read.
C16_ShortStream ==
    (op.name = "read_from" /\ op.stream.ident \in ShortIdents) =>
        (ret = "Err" /\ op.err = "IoError" /\ blocks = pre)

C16_WitnessShort ==
    /\ op.name = "read_from"
    /\ op.stream.ident = "fL"
    /\ op.stream.frames # <<>>
    /\ op.err = "IoError"

C16_WitnessAfterLast ==
    /\ op.name = "read_from"
    /\ ret = "Ok"
    /\ Len(op.stream.frames) = 3
    /\ Len(blocks) = 2

(***************************************************************************)
(* C12.  Without failing calls, skip_metadata on a stream whose first 4    *)
(* bytes are not fLaC returns every byte of the stream; on a stream of     *)
(* fLaC and complete blocks, one of them with the last-block flag, it      *)
(* returns exactly the bytes after the payload of the first block with the *)
(* flag, whatever the type codes and the payloads are.                     *)
(***************************************************************************)
FirstFlagged(list) ==
    IF \E i \in 1..Len(list) : list[i].last
    THEN CHOOSE i \in 1..Len(list) : list[i].last /\ \A j \in 1..(i - 1) : ~list[j].last
    ELSE 0

C12_SkipMetadata ==
    (op.name = "skip_metadata" /\ op.fail_at = 0) =>
        /\ (Len(op.bytes) < 4 \/ SubSeq(op.bytes, 1, 4) # Magic) => ret = op.bytes
        /\ (op.whole /\ op.ident = Magic /\ FirstFlagged(op.list) # 0) =>
              /\ ~op.failed
              /\ ret = BlocksBytes(SubSeq(op.list, FirstFlagged(op.list) + 1, Len(op.list)))
                       \o op.tail

C12_Witness ==
    /\ op.name = "skip_metadata"
    /\ op.fail_at = 0
    /\ op.whole
    /\ op.ident = Magic
    /\ Len(op.list) = 2
    /\ FirstFlagged(op.list) = 1
    /\ op.list[1].payload # <<>>
    /\ op.tail # <<>>
    /\ ret = BlockBytes(op.list[2]) \o op.tail

C12_WitnessNoMagic ==
    /\ op.name = "skip_metadata"
    /\ op.fail_at = 0
    /\ Len(op.bytes) > 4
    /\ SubSeq(op.bytes, 1, 4) # Magic
    /\ ret = op.bytes

(***************************************************************************)
(* C13.  When a read or a seek fails in the middle of the scan, as when    *)
(* the stream ends inside the block headers before a last-block flag,      *)
(* skip_metadata signals no error and returns everything from the position *)
(* of the stream at which the failure occurred.                            *)
(***************************************************************************)
C13_FailureFallback ==
    (op.name = "skip_metadata" /\ op.failed) => ret = Rest(op.bytes, op.at)

\* What the fallback returns: the whole stream, from its first byte, or
\* nothing when the seek or the read of the fallback fails too.
C13_WholeOrNothing ==
    (op.name = "skip_metadata" /\ op.failed) =>
        /\ ret \in {op.bytes, <<>>}
        /\ op.fail_at = 0 => ret = op.bytes

C13_WitnessEndsInHeader ==
    /\ op.name = "skip_metadata"
    /\ op.fail_at = 0
    /\ op.failed
    /\ op.at = 4
    /\ Len(op.bytes) = 6
    /\ ret = op.bytes

C13_WitnessNothing ==
    /\ op.name = "skip_metadata"
    /\ op.failed
    /\ op.bytes # <<>>
    /\ ret = <<>>

(***************************************************************************)
(* What the properties of the operations on files are stated with.         *)
(***************************************************************************)
\* the shapes of FlacFiles that the file at hand had before the operation
ShapesBefore ==
    {f \in FlacFiles :
        op.p \in DOMAIN op.files /\ op.files[op.p] = StreamBytes(Magic, f.list, f.tail)}

\* the ident and the blocks as write_to writes them, the last one flagged
TagBytes(blks) ==
    Magic \o FramesBytes([i \in 1..Len(blks) |-> Frame(i = Len(blks), blks[i])])

Contains(bytes, sub) ==
    \E i \in 0..(Len(bytes) - Len(sub)) : SubSeq(bytes, i + 1, i + Len(sub)) = sub

(***************************************************************************)
(* C15.  When write_to_path succeeds on an existing file of fLaC and a     *)
(* complete block stream that ends in a block with the last-block flag,    *)
(* the file is then the ident, the normalized blocks of the tag, and       *)
(* exactly the bytes that followed the blocks in the original file.        *)
(***************************************************************************)
C15_RewriteKeepsAudio ==
    (op.name = "write_to_path" /\ ret = "Ok") =>
        \A f \in ShapesBefore : file[op.p] = TagBytes(blocks) \o f.tail

\* The same when no call fails on the way.
C15_WithoutFailure ==
    (op.name = "write_to_path" /\ ret = "Ok" /\ op.io = NoFault) =>
        \A f \in ShapesBefore : file[op.p] = TagBytes(blocks) \o f.tail

C15_WitnessKept ==
    /\ op.name = "write_to_path"
    /\ ret = "Ok"
    /\ op.io = NoFault
    /\ Len(blocks) = 3
    /\ \E f \in ShapesBefore : Len(f.list) = 2 /\ file[op.p] = TagBytes(blocks) \o f.tail

C15_WitnessLost ==
    /\ op.name = "write_to_path"
    /\ ret = "Ok"
    /\ op.io.kind = "open"
    /\ ShapesBefore # {}
    /\ file[op.p] = TagBytes(blocks)

C15_WitnessDoubled ==
    /\ op.name = "write_to_path"
    /\ ret = "Ok"
    /\ op.io.kind = "scan"
    /\ ShapesBefore # {}
    /\ file[op.p] = TagBytes(blocks) \o op.files[op.p]

(***************************************************************************)
(* C17.  save() on a tag with no recorded path panics: it is not a silent  *)
(* no-op and it touches no file and no block.  save() on a tag with a      *)
(* recorded path does what write_to_path does on that path.                *)
(***************************************************************************)
C17_Save ==
    op.name = "save" =>
        IF op.path = None
        THEN fault = "panic" /\ blocks = pre /\ file = op.files /\ path = None
        ELSE LET r == write_to_path(pre, op.files, op.path[1], overflow_checks, op.io)
             IN  /\ blocks = r.blocks
                 /\ file = r.file
                 /\ fault = r.fault
                 /\ ret = (IF r.res = "ok" THEN "Ok" ELSE "Err")
                 /\ path = op.path

C17_Witness ==
    /\ op.name = "save"
    /\ op.path = None
    /\ pre # <<>>
    /\ DOMAIN file # {}
    /\ fault = "panic"

\* save() on a tag that read_from made after the tag before it had a path
C17_WitnessRead ==
    /\ op.name = "save"
    /\ op.path = None
    /\ fault = "panic"
    /\ pre = <<StreamInfoBlock(<<1>>), PaddingBlock(U32(0, 1))>>

C17_WitnessWithPath ==
    /\ op.name = "save"
    /\ op.path # None
    /\ ret = "Ok"
    /\ ShapesBefore # {}
    /\ blocks # pre
    /\ file # op.files

(***************************************************************************)
(* C20.  write_to_path is not crash-atomic: the file is truncated before   *)
(* the blocks and the kept data are written, so when write_to or the       *)
(* append of the data fails after the truncation, the file no longer holds *)
(* the data that followed the blocks of the original file.                 *)
(***************************************************************************)
C20_NotCrashAtomic ==
    (op.name = "write_to_path" /\ ret = "Err" /\ op.truncated /\ fault = "none") =>
        \A f \in ShapesBefore : file[op.p] # op.files[op.p] /\ ~Contains(file[op.p], f.tail)

C20_Witness ==
    /\ op.name = "write_to_path"
    /\ ret = "Err"
    /\ op.truncated
    /\ op.io.kind = "write_all"
    /\ \E f \in ShapesBefore :
          /\ f.tail = <<201, 200>>
          /\ file[op.p] = TagBytes(blocks) \o <<201>>

C20_WitnessWriteTo ==
    /\ op.name = "write_to_path"
    /\ ret = "Err"
    /\ op.truncated
    /\ op.io.kind = "write"
    /\ ShapesBefore # {}
    /\ file[op.p] = Magic

(***************************************************************************)
(* C21.  For every tag in which the payload of each block, taken alone,    *)
(* fits the 24-bit length field, write_to does not fail with the           *)
(* FormatError of a length that does not fit: the one Padding block that   *)
(* aggregate_padding leaves, of the 32-bit sum of the padding sizes, is    *)
(* still encodable.                                                        *)
(***************************************************************************)
EachEncodable(blks) == \A i \in 1..Len(blks) : Encodable(blks[i])

C21_WithinLengthField ==
    (op.name = "write_to" /\ EachEncodable(pre)) => op.err # "FormatError"

\* The same, for the tags whose padding total fits the 24-bit length field.
C21_WhenTotalFits ==
    (op.name = "write_to" /\ EachEncodable(pre) /\ ExactPaddingTotal(pre)[1] <= 255) =>
        op.err # "FormatError"

\* Two Padding blocks of 16,777,215 bytes each: the sum is 33,554,430.  Below,
\* one of 16,777,215 bytes and one of 10.
C21_WitnessSumTooLong ==
    /\ op.name = "write_to"
    /\ pre = <<PaddingBlock(U32(255, 65535)), PaddingBlock(U32(255, 65535))>>
    /\ fault = "none"
    /\ blocks = <<PaddingBlock(U32(511, 65534))>>
    /\ op.err = "FormatError"
    /\ ret = "Err"
    /\ out = [ident |-> "fLaC", frames |-> <<>>]

C21_WitnessByTen ==
    /\ op.name = "write_to"
    /\ Len(Paddings(pre)) = 2
    /\ EachEncodable(pre)
    /\ blocks[Len(blocks)] = PaddingBlock(U32(256, 9))
    /\ op.err = "FormatError"

=============================================================================
